---- MODULE Spec2Model ----
(***************************************************************************)
(* A model of pypreprocess/cluster_level_analysis.py: the three            *)
(* multiple-comparison helpers (fdr_threshold, fdr_pvalues,                *)
(* empirical_pvalue) and cluster_stats, which thresholds a masked          *)
(* statistic image, labels the connected components above the threshold,   *)
(* finds their local maxima and builds one record per cluster.             *)
(*                                                                         *)
(* Numbers.  Statistic values are small integers.  Probabilities are exact *)
(* fractions <<n, d>> (d > 0) in units of 1/PScale, the unit of the table  *)
(* SF of norm.sf; norm.isf is never evaluated: a cutoff isf(p) is kept as  *)
(* the level p and compared through  v > isf(p)  <=>  sf(v) < p  (sf is     *)
(* strictly decreasing).  A cutoff on the statistic scale is an integer in *)
(* units of 1/EpsInv, so that "z - 1.e-8" is exact.                        *)
(***************************************************************************)
EXTENDS Integers, Sequences, FiniteSets, TLC

VARIABLES
    stat_img,       \* data of the statistic image, one integer per cell
    mask_img,       \* data of the mask image, one boolean per cell
    caller_put,     \* the mapping the caller built for the last call, as built
    default_nulls,  \* the object bound to the default argument nulls={}
    caller_nulls,   \* the caller's mapping object, as it is now
    ret,            \* the last cluster_stats call: arguments, locals, result
    z_vals,         \* argument of fdr_threshold / fdr_pvalues
    alpha,          \* argument of fdr_threshold
    ref,            \* argument of empirical_pvalue
    fres            \* the last helper call and its result

vars == <<stat_img, mask_img, caller_put, default_nulls, caller_nulls, ret,
          z_vals, alpha, ref, fres>>

---------------------------------------------------------------------------
(* Bounds of the model *)

\* Length of the first axis of the grid.
NX == 3
\* Length of the second axis of the grid.
NY == 2
\* Length of the third axis of the grid.
NZ == 2
\* An input image pair has at most this weight: the sum of its statistic
\* values plus 2 for every cell outside the mask.
MaxWeight == 3
\* Longest array handed to a helper function.
MaxLen == 3

---------------------------------------------------------------------------
(* Numbers *)

\* 1 / 1.e-8: statistic-scale cutoffs are integers in units of 1.e-8.
EpsInv == 100000000

\* Probabilities of the table SF are in units of 1/PScale.
PScale == 10 ^ 5

\* norm.sf(z) for the statistic values of the model, rounded to 5 places.
SF(z) ==
    CASE z = -3 -> 99865
      [] z = -2 -> 97725
      [] z = -1 -> 84134
      [] z = 0 -> 50000
      [] z = 1 -> 15866
      [] z = 2 -> 2275
      [] z = 3 -> 135

\* A probability is a pair <<n, d>> that stands for n / (d * PScale); a level
\* (an alpha, a p-value threshold) is a plain rational <<n, d>>.
QLeq(a, b) == a[1] * b[2] <= b[1] * a[2]
QMin(a, b) == IF QLeq(a, b) THEN a ELSE b
POne == <<PScale, 1>>

\* probability p < level q, p <= q, p = q
PLtLevel(p, q) == p[1] * q[2] < q[1] * PScale * p[2]
PLeqLevel(p, q) == p[1] * q[2] <= q[1] * PScale * p[2]
PEqLevel(p, q) == p[1] * q[2] = q[1] * PScale * p[2]

\* norm.sf(z) as a probability.
norm_sf(z) == <<SF(z), 1>>

Range(s) == {s[i] : i \in DOMAIN s}

Last(s) == s[Len(s)]

\* A function constructor as a table: its entries are computed once.
Table(f) == f @@ <<>>

\* a[mask]: the entries of a at the positions where mask is TRUE, in order.
RECURSIVE BoolIndexFrom(_, _, _)
BoolIndexFrom(a, mask, i) ==
    IF i > Len(a) THEN <<>>
    ELSE (IF mask[i] THEN <<a[i]>> ELSE <<>>) \o BoolIndexFrom(a, mask, i + 1)

BoolIndex(a, mask) == BoolIndexFrom(a, mask, 1)

\* All permutations of 1..n, as sequences.
Perms(n) == {p \in [1..n -> 1..n] : \A i, j \in 1..n : i # j => p[i] # p[j]}

\* np.argsort(a) with the default kind ('quicksort', which is not stable):
\* every index order that sorts a ascending is a possible result.
ArgSorts(a) ==
    {p \in Perms(Len(a)) : \A i \in 1..(Len(a) - 1) : a[p[i]] <= a[p[i + 1]]}

\* The two extreme results of np.argsort(a): equal entries in ascending index
\* order (tie = "stable") or in descending index order (tie = "reversed").
TieOrders == {"stable", "reversed"}

ArgSortTie(a, tie) ==
    LET Before(i, j) ==
            \/ a[i] < a[j]
            \/ a[i] = a[j] /\ (IF tie = "stable" THEN i < j ELSE i > j)
        rank == Table([i \in DOMAIN a |-> 1 + Cardinality({j \in DOMAIN a : Before(j, i)})])
    IN Table([k \in 1..Len(a) |-> CHOOSE i \in DOMAIN a : rank[i] = k])

\* np.sort(a): the values of a, ascending.
np_sort(a) ==
    LET p == ArgSortTie(a, "stable")
    IN Table([i \in 1..Len(a) |-> a[p[i]]])

Neg(a) == Table([i \in 1..Len(a) |-> -a[i]])

---------------------------------------------------------------------------
(* fdr_threshold *)

\* Entry k (1-based) of alpha * np.linspace(.5 / n, 1 - .5 / n, n):
\* alpha * (2k - 1) / (2n), with alpha = <<num, den>>.
BHLevel(a, k, n) == <<a[1] * (2 * k - 1), a[2] * 2 * n>>

\* A mutant: the last line picks the first selected entry, not the last.
fdr_threshold_first(z, a) ==
    LET z_vals_ == Neg(np_sort(Neg(z)))
        n_samples == Len(z)
        pos == [k \in 1..n_samples |-> PLtLevel(norm_sf(z_vals_[k]), BHLevel(a, k, n_samples))]
    IN IF \E k \in 1..n_samples : pos[k]
       THEN [kind |-> "z", v |-> BoolIndex(z_vals_, pos)[1] * EpsInv - 1]
       ELSE [kind |-> "inf", v |-> 0]

\* fdr_threshold(z_vals, alpha).  The result is a cutoff: kind "z" with v in
\* units of 1.e-8, or kind "inf".
fdr_threshold(z, a) ==
    LET z_vals_ == Neg(np_sort(Neg(z)))
        n_samples == Len(z)
        pos == [k \in 1..n_samples |-> PLtLevel(norm_sf(z_vals_[k]), BHLevel(a, k, n_samples))]
    IN IF \E k \in 1..n_samples : pos[k]
       THEN [kind |-> "z", v |-> Last(BoolIndex(z_vals_, pos)) * EpsInv - 1]
       ELSE [kind |-> "inf", v |-> 0]

---------------------------------------------------------------------------
(* fdr_pvalues *)

\* The loop of lines 33-34: fdr[i - 1] = min(fdr[i - 1], fdr[i]), from the end.
RECURSIVE StepUp(_, _)
StepUp(fdr, i) ==
    IF i <= 1 THEN fdr
    ELSE StepUp([fdr EXCEPT ![i - 1] = QMin(fdr[i - 1], fdr[i])], i - 1)

\* A mutant: the monotonicity loop is left out.
fdr_pvalues_noloop(z, order) ==
    LET n_samples == Len(z)
        fdr == [k \in 1..n_samples |->
                   QMin(POne, <<SF(z[order[k]]) * n_samples, k>>)]
        inv_order == [j \in 1..n_samples |-> CHOOSE k \in 1..n_samples : order[k] = j]
    IN [j \in 1..n_samples |-> fdr[inv_order[j]]]

\* fdr_pvalues(z_vals), given the result `order` of np.argsort(- z_vals).
fdr_pvalues_with(z, order) ==
    LET n_samples == Len(z)
        raw == [k \in 1..n_samples |->
                   QMin(POne, <<SF(z[order[k]]) * n_samples, k>>)]
        fdr == StepUp(raw, n_samples)
        inv_order == [j \in 1..n_samples |-> CHOOSE k \in 1..n_samples : order[k] = j]
    IN [j \in 1..n_samples |-> fdr[inv_order[j]]]

---------------------------------------------------------------------------
(* empirical_pvalue *)

\* np.searchsorted(np.sort(ref), x): the number of entries of ref below x.
searchsorted(sorted_ref, x) == Cardinality({i \in DOMAIN sorted_ref : sorted_ref[i] < x})

\* empirical_pvalue(z_score, ref) for one observed value.
empirical_pvalue(x, r) ==
    LET ranks == searchsorted(np_sort(r), x)
    IN <<Len(r) - ranks, Len(r)>>

---------------------------------------------------------------------------
(* The grid *)

NCells == NX * NY * NZ

\* Cells are numbered 1..NCells in C (raster) order, the order of np.where
\* and of boolean indexing.
Cells == 1..NCells

CX(c) == (c - 1) \div (NY * NZ)
CY(c) == ((c - 1) \div NZ) % NY
CZ(c) == (c - 1) % NZ

Abs(i) == IF i < 0 THEN -i ELSE i

\* The window of maximum_filter(., 3): index difference at most 1 on each axis.
InWindow(c, d) ==
    /\ Abs(CX(c) - CX(d)) <= 1
    /\ Abs(CY(c) - CY(d)) <= 1
    /\ Abs(CZ(c) - CZ(d)) <= 1

\* A mutant: neighbours along the first axis only.
StructureFirstAxis(c, d) ==
    Abs(CX(c) - CX(d)) = 1 /\ CY(c) = CY(d) /\ CZ(c) = CZ(d)

\* The structuring element label() uses when none is given: cells that differ
\* by 1 along exactly one axis (scipy's generate_binary_structure(ndim, 1)).
Structure(c, d) ==
    Abs(CX(c) - CX(d)) + Abs(CY(c) - CY(d)) + Abs(CZ(c) - CZ(d)) = 1

\* mask_img.get_affine() and coord_transform: an image's affine maps a cell's
\* indices to coordinates; the images of the model carry this one.
coord_transform(c) == <<2 * CX(c) - 3, 2 * CY(c) + 1, 3 * CZ(c)>>

SetMin(S) == CHOOSE x \in S : \A y \in S : x <= y
SetMax(S) == CHOOSE x \in S : \A y \in S : x >= y

\* scipy.ndimage.label(above_th): every cell learns the smallest cell number
\* of its component; components are numbered 1..K in raster order of their
\* first cell.
RECURSIVE Spread(_, _)
Spread(lab, above) ==
    LET nxt == Table([c \in Cells |->
                   IF above[c]
                   THEN SetMin({lab[d] : d \in {e \in Cells : above[e] /\ Structure(c, e)}}
                               \cup {lab[c]})
                   ELSE 0])
    IN IF nxt = lab THEN lab ELSE Spread(nxt, above)

label(above) ==
    LET root == Spread(Table([c \in Cells |-> IF above[c] THEN c ELSE 0]), above)
        roots == {root[c] : c \in {d \in Cells : above[d]}}
    IN [labels |-> Table([c \in Cells |->
                       IF above[c]
                       THEN Cardinality({r \in roots : r <= root[c]})
                       ELSE 0]),
        n_labels |-> Cardinality(roots)]

---------------------------------------------------------------------------
(* Cutoffs *)

\* A cutoff on the statistic scale: kind "z" (v, in units of 1.e-8), kind
\* "isf" (norm.isf(p), kept as p) or kind "inf".
CutZ(v) == [kind |-> "z", v |-> v, p |-> <<0, 1>>]
CutIsf(p) == [kind |-> "isf", v |-> 0, p |-> p]
CutInf == [kind |-> "inf", v |-> 0, p |-> <<0, 1>>]

\* x > cut
GtCut(x, cut) ==
    CASE cut.kind = "z" -> x * EpsInv > cut.v
      [] cut.kind = "isf" -> PLtLevel(norm_sf(x), cut.p)
      [] cut.kind = "inf" -> FALSE

\* x >= cut
GeqCut(x, cut) ==
    CASE cut.kind = "z" -> x * EpsInv >= cut.v
      [] cut.kind = "isf" -> PLeqLevel(norm_sf(x), cut.p)
      [] cut.kind = "inf" -> FALSE

\* x == cut
EqCut(x, cut) ==
    CASE cut.kind = "z" -> x * EpsInv = cut.v
      [] cut.kind = "isf" -> PEqLevel(norm_sf(x), cut.p)
      [] cut.kind = "inf" -> FALSE

\* Lines 84-91: the cutoff.  threshold is a rational <<n, d>>.
z_threshold_of(height_control, threshold, masked_vals, n_voxels) ==
    CASE height_control = "fpr" -> CutIsf(threshold)
      [] height_control = "fdr" ->
            LET t == fdr_threshold(masked_vals, threshold)
            IN IF t.kind = "inf" THEN CutInf ELSE CutZ(t.v)
      [] height_control = "bonferroni" ->
            CutIsf(<<threshold[1], threshold[2] * n_voxels>>)
      [] OTHER -> CutZ((threshold[1] * EpsInv) \div threshold[2])

---------------------------------------------------------------------------
(* The null-distribution mapping *)

NullKeys == {"zmax", "smax", "s"}

\* The values an entry holds: the string 'bonferroni', None, or an array.
Bonferroni == [tag |-> "bonferroni", v |-> <<>>]
None == [tag |-> "None", v |-> <<>>]
Array(a) == [tag |-> "array", v |-> a]

\* {}: the mapping with no entry.
EmptyMapping == [k \in {} |-> None]

\* Lines 120-125, which write into the mapping object they were handed.
fill_defaults(nulls) ==
    [k \in NullKeys |->
        IF k \in DOMAIN nulls THEN nulls[k]
        ELSE IF k = "zmax" THEN Bonferroni ELSE None]

---------------------------------------------------------------------------
(* cluster_stats *)

Reverse(s) == [i \in 1..Len(s) |-> s[Len(s) + 1 - i]]

Iota(n) == [i \in 1..n |-> i]

\* A mutant: the [::-1] of line 138 is forgotten.
sort_maxima_ascending(max_vals, tie) == ArgSortTie(max_vals, tie)

\* Line 138: sorted = max_vals.argsort()[::-1]
sort_maxima(max_vals, tie) == Reverse(ArgSortTie(max_vals, tie))

\* A mutant: the minus sign of line 177 is forgotten.
sort_clusters_ascending(sizes, tie) == ArgSortTie(sizes, tie)

\* Line 177: order = np.argsort(- sizes)
sort_clusters(sizes, tie) == ArgSortTie(Neg(sizes), tie)

\* The locals of lines 74-117 that the rest of the call and the properties
\* read.  Nothing is labelled and no maximum is extracted when the call
\* returns at line 103.
locals_117(mask, n_voxels, z_threshold, above_th, above_values, lab, maxima_mask, all_fdr) ==
    LET empty == \A c \in Cells : ~above_th[c]
        maxima_cells == BoolIndex(Iota(NCells), maxima_mask)
    IN [n_voxels |-> n_voxels,
        z_threshold |-> z_threshold,
        above_th |-> above_th,
        empty |-> empty,
        labels |-> IF empty THEN Table([c \in Cells |-> 0]) ELSE lab.labels,
        n_labels |-> IF empty THEN 0 ELSE lab.n_labels,
        maxima_mask |-> IF empty THEN Table([c \in Cells |-> FALSE]) ELSE maxima_mask,
        maxima_cells |-> IF empty THEN <<>> ELSE maxima_cells,
        maxima_values |->
            IF empty THEN <<>>
            ELSE Table([i \in 1..Len(maxima_cells) |-> above_values[maxima_cells[i]]]),
        max_fdr_pvalues |->
            IF empty THEN <<>> ELSE BoolIndex(all_fdr, BoolIndex(maxima_mask, mask))]

\* Lines 105-117: connected components, local maxima, FDR-corrected
\* p-values.  filtered is maximum_filter(above_values, 3).  fdr_pvalues is
\* given the stable order: its result is the same for every order argsort
\* may produce (FdrPvaluesOrderFree below).
extract_maxima(mask, n_voxels, masked_vals, z_threshold, above_th, above_values, filtered) ==
    locals_117(mask, n_voxels, z_threshold, above_th, above_values,
               label(above_th),
               Table([c \in Cells |->
                         IF GeqCut(filtered[c], z_threshold)
                         THEN above_values[c] = filtered[c]
                         ELSE EqCut(above_values[c], z_threshold)]),
               fdr_pvalues_with(masked_vals, ArgSortTie(Neg(masked_vals), "stable")))

\* Lines 100-101 and the maximum_filter of line 110.
above_threshold(stat_map, mask, n_voxels, masked_vals, z_threshold, above_th) ==
    LET above_values == Table([c \in Cells |-> IF above_th[c] THEN stat_map[c] ELSE 0])
    IN extract_maxima(mask, n_voxels, masked_vals, z_threshold, above_th, above_values,
                      Table([c \in Cells |->
                                SetMax({above_values[d] : d \in {e \in Cells : InWindow(c, e)}})]))

\* Lines 83-100: the cutoff, and the cells above it.
thresholding(stat_map, mask, n_voxels, masked_vals, z_threshold) ==
    above_threshold(stat_map, mask, n_voxels, masked_vals, z_threshold,
                    Table([c \in Cells |-> GtCut(stat_map[c], z_threshold)]))

\* Lines 74-91: masking, and the cutoff of the chosen mode.
masking(stat_map, mask, n_voxels, masked_vals, threshold, height_control) ==
    thresholding(stat_map, mask, n_voxels, masked_vals,
                 z_threshold_of(height_control, threshold, masked_vals, n_voxels))

\* Lines 74-117 of cluster_stats: masking, thresholding, connected components,
\* local maxima and their FDR p-values.
threshold_and_label(stat, mask, threshold, height_control) ==
    LET stat_map == Table([c \in Cells |-> IF mask[c] THEN stat[c] ELSE 0])
    IN masking(stat_map, mask, Cardinality({c \in Cells : mask[c]}),
               BoolIndex(stat_map, mask), threshold, height_control)

\* What a call has done when it ends.  status is "returned" or "raised";
\* nulls is the mapping object the call was handed, as the call leaves it.
Outcome(status, error, clusters, kept, nulls) ==
    [status |-> status, error |-> error, clusters |-> clusters, kept |-> kept,
     nulls |-> nulls]

\* Lines 100-180 of cluster_stats, given the locals t of lines 74-117: the
\* early return, the defaults of nulls, one record per cluster, the final
\* sort.  tie is the order in which this numpy's argsort leaves equal
\* entries; strict tells whether this numpy raises IndexError for a boolean index of
\* the wrong length (numpy >= 1.13) or indexes by the positions of its True
\* entries (older numpy).
make_clusters(t, cluster_threshold, nulls, tie, strict) ==
    LET n_maxima == Len(t.maxima_cells)
        maxima_labels == Table([i \in 1..n_maxima |-> t.labels[t.maxima_cells[i]]])
        aligned == Len(t.max_fdr_pvalues) = n_maxima
        \* Default "nulls"
        filled == fill_defaults(nulls)
        \* The loop body, for label k
        cluster_size(k) == Cardinality({c \in Cells : t.labels[c] = k})
        positions(k) ==
            BoolIndex(Iota(n_maxima), [i \in 1..n_maxima |-> maxima_labels[i] = k])
        index_ok(k) ==
            \/ aligned
            \/ /\ ~strict
               /\ LET pos == positions(k)
                  IN \A j \in DOMAIN pos : pos[j] <= Len(t.max_fdr_pvalues)
        record(k) ==
            LET pos == positions(k)
                n == Len(pos)
                max_vals == Table([j \in 1..n |-> t.maxima_values[pos[j]]])
                sorted == sort_maxima(max_vals, tie)
                z_score == Table([j \in 1..n |-> max_vals[sorted[j]]])
                p_values == Table([j \in 1..n |-> norm_sf(z_score[j])])
                size == cluster_size(k)
            IN [label |-> k,
                size |-> size,
                cells |-> [j \in 1..n |-> t.maxima_cells[pos[sorted[j]]]],
                maxima |-> [j \in 1..n |-> coord_transform(t.maxima_cells[pos[sorted[j]]])],
                zscore |-> z_score,
                fdr_pvalue |-> [j \in 1..n |-> t.max_fdr_pvalues[pos[sorted[j]]]],
                pvalue |-> p_values,
                fwer_pvalue |->
                    IF filled["zmax"].tag = "bonferroni"
                    THEN Array([j \in 1..n |->
                                   QMin(POne, <<p_values[j][1] * t.n_voxels, p_values[j][2]>>)])
                    ELSE None,
                cluster_fwer_pvalue |->
                    IF filled["smax"].tag = "array"
                    THEN Array(<<empirical_pvalue(size, filled["smax"].v)>>)
                    ELSE None,
                cluster_pvalue |->
                    IF filled["s"].tag = "array"
                    THEN Array(<<empirical_pvalue(size, filled["s"].v)>>)
                    ELSE None]
        kept == BoolIndex(Iota(t.n_labels),
                          [k \in 1..t.n_labels |-> cluster_size(k) >= cluster_threshold])
        order == sort_clusters([i \in 1..Len(kept) |-> cluster_size(kept[i])], tie)
    IN IF t.empty
       THEN \* line 103: nothing above the threshold
            Outcome("returned", "", <<>>, <<>>, nulls)
       ELSE IF Len(kept) > 0 /\ filled["zmax"].tag = "array"
       THEN \* line 150: clusters is a list, clusters['zscore'] raises
            Outcome("raised", "TypeError", <<>>, kept, filled)
       ELSE IF \E i \in DOMAIN kept : ~index_ok(kept[i])
       THEN \* line 169: max_fdr_pvalues[in_cluster] raises
            Outcome("raised", "IndexError", <<>>, kept, filled)
       ELSE Outcome("returned", "", [i \in 1..Len(kept) |-> record(kept[order[i]])],
                    kept, filled)

---------------------------------------------------------------------------
(* Inputs *)

\* The largest statistic value of the input images (the table SF covers it).
MaxStat == 2

ZeroImage == [c \in Cells |-> 0]
FullMask == [c \in Cells |-> TRUE]

\* The image pairs <<statistic data, mask data>> of weight at most k: the
\* weight is the sum of the statistic values (each in 0..MaxStat) plus 2 for
\* every cell outside the mask.
RECURSIVE ImagePairs(_)
ImagePairs(k) ==
    IF k <= 0 THEN {<<ZeroImage, FullMask>>}
    ELSE LET S == ImagePairs(k - 1)
             T == ImagePairs(k - 2)
         IN S \cup UNION {{<<[im[1] EXCEPT ![c] = @ + 1], im[2]>> :
                                c \in {d \in Cells : im[1][d] < MaxStat}} : im \in S}
              \cup {<<im[1], [im[2] EXCEPT ![c] = FALSE]>> : im \in T, c \in Cells}

\* The pairs (height_control, threshold) of the calls; "unknown" stands for
\* any string that is none of the four documented modes.
ModeLevels ==
    {<<"fpr", <<1, 20>>>>, <<"fpr", <<9, 10>>>>, <<"fdr", <<1, 2>>>>,
     <<"bonferroni", <<1, 2>>>>, <<"none", <<1, 1>>>>, <<"none", <<0, 1>>>>,
     <<"none", <<-1, 1>>>>, <<"unknown", <<1, 1>>>>}

ClusterThresholds == {0, 2}

\* The mappings a caller builds and passes as nulls.
CallerMappings ==
    {("zmax" :> Array(<<1, 2, 2>>)),
     ("smax" :> Array(<<1, 2>>)) @@ ("s" :> Array(<<1, 1, 3>>))}

\* The arrays handed to the helper functions.
ZVals == {-2, -1, 0, 1, 2, 3}
Alphas == {<<1, 20>>, <<1, 2>>, <<1, 1>>}
RefArrays == {<<0>>, <<1, 2>>, <<2, 0, 2>>}

SeqsUpTo(S, n) == UNION {[1..m -> S] : m \in 1..n}

---------------------------------------------------------------------------
(* The state machine *)

NoRet == [status |-> "none"]
NoFres == [op |-> "none"]

\* The images are on disk, the default mapping is the {} of the def line,
\* nothing has been called.
Init ==
    /\ \E im \in ImagePairs(MaxWeight) : stat_img = im[1] /\ mask_img = im[2]
    /\ caller_put = EmptyMapping
    /\ caller_nulls = EmptyMapping
    /\ default_nulls = EmptyMapping
    /\ ret = NoRet
    /\ z_vals = <<>> /\ alpha = <<1, 1>> /\ ref = <<>> /\ fres = NoFres

\* What a call passes as nulls: nothing (the default object is used), or a
\* mapping the caller has just built.
NullsArgs ==
    {[given |-> FALSE, put |-> EmptyMapping]}
    \cup {[given |-> TRUE, put |-> m] : m \in CallerMappings}

\* cluster_stats(stat_img, mask_img, threshold, height_control,
\* cluster_threshold, nulls) for every choice of the arguments and of what
\* numpy leaves open: what the call leaves in ret and in the two mappings.
cluster_stats ==
    UNION {
        LET t == threshold_and_label(stat_img, mask_img, md[2], md[1])
        IN { LET nulls == IF arg.given THEN arg.put ELSE default_nulls
                 out == make_clusters(t, ct, nulls, tie, strict)
             IN [ret |-> [status |-> out.status, error |-> out.error,
                          clusters |-> out.clusters,
                          info |-> [n_voxels |-> t.n_voxels,
                                    threshold_z |-> t.z_threshold],
                          above_th |-> t.above_th, labels |-> t.labels,
                          n_labels |-> t.n_labels, maxima_mask |-> t.maxima_mask,
                          max_fdr_pvalues |-> t.max_fdr_pvalues,
                          kept |-> out.kept,
                          height_control |-> md[1], threshold |-> md[2],
                          cluster_threshold |-> ct, nulls_given |-> arg.given,
                          nulls_in |-> nulls],
                 caller_put |-> arg.put,
                 default_nulls |-> IF arg.given THEN default_nulls ELSE out.nulls,
                 caller_nulls |-> IF arg.given THEN out.nulls ELSE EmptyMapping] :
             ct \in ClusterThresholds, arg \in NullsArgs, tie \in TieOrders,
             strict \in (IF Len(t.max_fdr_pvalues) = Len(t.maxima_cells)
                         THEN {TRUE} ELSE BOOLEAN) } :
        md \in ModeLevels }

\* One call of cluster_stats, from its first line to its return or raise.
Call ==
    /\ ret.status = "none"
    /\ \E r \in cluster_stats :
          /\ ret' = r.ret
          /\ caller_put' = r.caller_put
          /\ default_nulls' = r.default_nulls
          /\ caller_nulls' = r.caller_nulls
    /\ UNCHANGED <<stat_img, mask_img, z_vals, alpha, ref, fres>>

\* The caller drops the result of the last call and the mapping it passed;
\* the default mapping lives on in the function object.
Discard ==
    /\ ret.status # "none"
    /\ ret' = NoRet
    /\ caller_put' = EmptyMapping
    /\ caller_nulls' = EmptyMapping
    /\ UNCHANGED <<stat_img, mask_img, default_nulls, z_vals, alpha, ref, fres>>

Next == Call \/ Discard

Spec == Init /\ [][Next]_vars

---------------------------------------------------------------------------
(* The helper functions on their own *)

InitFdr ==
    /\ stat_img = ZeroImage /\ mask_img = FullMask
    /\ caller_put = EmptyMapping /\ caller_nulls = EmptyMapping
    /\ default_nulls = EmptyMapping
    /\ ret = NoRet
    /\ z_vals \in SeqsUpTo(ZVals, MaxLen)
    /\ alpha \in Alphas
    /\ ref \in RefArrays
    /\ fres = NoFres

CallFdrThreshold ==
    /\ fres' = [op |-> "fdr_threshold", val |-> fdr_threshold(z_vals, alpha)]
    /\ UNCHANGED <<stat_img, mask_img, caller_put, default_nulls, caller_nulls, ret,
                   z_vals, alpha, ref>>

CallFdrPvalues ==
    /\ \E order \in ArgSorts(Neg(z_vals)) :
          fres' = [op |-> "fdr_pvalues", val |-> fdr_pvalues_with(z_vals, order)]
    /\ UNCHANGED <<stat_img, mask_img, caller_put, default_nulls, caller_nulls, ret,
                   z_vals, alpha, ref>>

CallEmpiricalPvalue ==
    /\ fres' = [op |-> "empirical_pvalue",
                val |-> [i \in 1..Len(z_vals) |-> empirical_pvalue(z_vals[i], ref)]]
    /\ UNCHANGED <<stat_img, mask_img, caller_put, default_nulls, caller_nulls, ret,
                   z_vals, alpha, ref>>

NextFdr == CallFdrThreshold \/ CallFdrPvalues \/ CallEmpiricalPvalue

SpecFdr == InitFdr /\ [][NextFdr]_vars

---------------------------------------------------------------------------
(* Vocabulary of the properties *)

Called == ret.status # "none"
Returned == ret.status = "returned"

\* stat_img.get_data() * mask, said again from the inputs alone.
MaskedStat(c) == IF mask_img[c] THEN stat_img[c] ELSE 0

\* Adjacent by a face: a difference of 1 along one axis, none along the others.
FaceAdjacent(c, d) ==
    \/ Abs(CX(c) - CX(d)) = 1 /\ CY(c) = CY(d) /\ CZ(c) = CZ(d)
    \/ CX(c) = CX(d) /\ Abs(CY(c) - CY(d)) = 1 /\ CZ(c) = CZ(d)
    \/ CX(c) = CX(d) /\ CY(c) = CY(d) /\ Abs(CZ(c) - CZ(d)) = 1

\* Adjacent by a face, an edge or a corner.
FullyAdjacent(c, d) ==
    /\ c # d
    /\ Abs(CX(c) - CX(d)) <= 1 /\ Abs(CY(c) - CY(d)) <= 1 /\ Abs(CZ(c) - CZ(d)) <= 1

\* The place of maximum c in detection (raster) order.
DetectionIndex(c) == Cardinality({d \in Cells : ret.maxima_mask[d] /\ d <= c})

NonIncreasing(a) == \A i, j \in DOMAIN a : i < j => a[i] >= a[j]

---------------------------------------------------------------------------
(* C1 *)

\* C1 (as claimed): a call whose height_control is none of 'fpr', 'fdr',
\* 'bonferroni', 'none' raises a ConfigurationError and returns nothing.
C1_UnknownModeRaises ==
    (Called /\ ret.height_control \notin {"fpr", "fdr", "bonferroni", "none"})
        => (ret.status = "raised" /\ ret.error = "ConfigurationError")

---------------------------------------------------------------------------
(* C2 *)

---------------------------------------------------------------------------
(* C3 *)

\* C3 (as claimed): no cell outside the mask is above the threshold, carries
\* a label, or is reported as a local maximum of a cluster.
C3_OutsideMaskExcluded ==
    Called =>
        \A c \in Cells :
            ~mask_img[c] =>
                /\ ~ret.above_th[c]
                /\ ret.labels[c] = 0
                /\ \A i \in DOMAIN ret.clusters : c \notin Range(ret.clusters[i].cells)

---------------------------------------------------------------------------
(* C4 *)

\* C4 (as claimed): the default mapping is still empty, and the mapping the
\* caller passed holds exactly what the caller put in it.
C4_NullsUntouched ==
    /\ default_nulls = EmptyMapping
    /\ caller_nulls = caller_put

---------------------------------------------------------------------------
(* C5 *)

\* C5 (as claimed): with an array under 'zmax' and a cluster that qualifies,
\* the call returns, and each cluster's fwer_pvalue is the empirical
\* percentile of its z-scores against that array.
C5_EmpiricalFwer ==
    (Called /\ "zmax" \in DOMAIN ret.nulls_in /\ Len(ret.kept) > 0)
        => (ret.nulls_in["zmax"].tag = "array"
              => /\ Returned
                 /\ \A i \in DOMAIN ret.clusters :
                       LET cl == ret.clusters[i]
                       IN /\ cl.fwer_pvalue.tag = "array"
                          /\ Len(cl.fwer_pvalue.v) = Len(cl.zscore)
                          /\ \A j \in DOMAIN cl.zscore :
                                cl.fwer_pvalue.v[j]
                                  = empirical_pvalue(cl.zscore[j], ret.nulls_in["zmax"].v))

---------------------------------------------------------------------------
(* C6 *)

\* C6 (as claimed): in every returned cluster the maxima are in descending
\* order of value, and maxima of equal value are in detection order.
C6_StableDescending ==
    Returned =>
        \A i \in DOMAIN ret.clusters :
            LET cl == ret.clusters[i]
            IN \A j, k \in DOMAIN cl.cells :
                  j < k =>
                      \/ cl.zscore[j] > cl.zscore[k]
                      \/ cl.zscore[j] = cl.zscore[k] /\ cl.cells[j] < cl.cells[k]

\* C6 (amended): in every returned cluster the reported maxima are the
\* maxima of its component, each once, in non-increasing order of value, and
\* maxima, zscore, pvalue and fdr_pvalue are the detection-order arrays
\* maxima_coords, maxima_values, norm.sf(zscore) and max_fdr_pvalues taken in
\* that one order.
C6_DescendingSameOrder ==
    Returned =>
        \A i \in DOMAIN ret.clusters :
            LET cl == ret.clusters[i]
                n == Len(cl.cells)
            IN /\ Range(cl.cells)
                    = {c \in Cells : ret.maxima_mask[c] /\ ret.labels[c] = cl.label}
               /\ \A j, k \in 1..n : j # k => cl.cells[j] # cl.cells[k]
               /\ Len(cl.maxima) = n /\ Len(cl.zscore) = n
               /\ Len(cl.pvalue) = n /\ Len(cl.fdr_pvalue) = n
               /\ NonIncreasing(cl.zscore)
               /\ \A j \in 1..n :
                     /\ cl.maxima[j] = <<2 * CX(cl.cells[j]) - 3, 2 * CY(cl.cells[j]) + 1,
                                         3 * CZ(cl.cells[j])>>
                     /\ cl.zscore[j] = MaskedStat(cl.cells[j])
                     /\ cl.pvalue[j] = <<SF(cl.zscore[j]), 1>>
                     /\ cl.fdr_pvalue[j] = ret.max_fdr_pvalues[DetectionIndex(cl.cells[j])]

\* A returned cluster with two maxima of different values and two of the
\* same value.
C6_Witness ==
    /\ Returned
    /\ \E i \in DOMAIN ret.clusters :
          LET cl == ret.clusters[i]
          IN /\ \E j, k \in DOMAIN cl.zscore : cl.zscore[j] > cl.zscore[k]
             /\ \E j, k \in DOMAIN cl.zscore : j # k /\ cl.zscore[j] = cl.zscore[k]

---------------------------------------------------------------------------
(* C7 *)

---------------------------------------------------------------------------
(* C8 *)

\* Entry k of the values of z_vals in descending order: the value with fewer
\* than k entries above it and at least k entries not below it.
DescendingEntry(k) ==
    CHOOSE v \in Range(z_vals) :
        /\ Cardinality({i \in DOMAIN z_vals : z_vals[i] > v}) < k
        /\ Cardinality({i \in DOMAIN z_vals : z_vals[i] >= v}) >= k

\* The ranks k whose p-value is below alpha * (2k - 1) / (2n).
Qualifying ==
    {k \in 1..Len(z_vals) :
        SF(DescendingEntry(k)) * alpha[2] * 2 * Len(z_vals)
            < alpha[1] * (2 * k - 1) * PScale}

\* C8 (as claimed): fdr_threshold returns the value of the largest-statistic
\* qualifying entry minus 1.e-8, and +infinity exactly when none qualifies.
C8_LargestQualifying ==
    fres.op = "fdr_threshold" =>
        IF Qualifying = {} THEN fres.val.kind = "inf"
        ELSE /\ fres.val.kind = "z"
             /\ fres.val.v = DescendingEntry(SetMin(Qualifying)) * EpsInv - 1

\* C8 (amended): fdr_threshold returns the value of the last qualifying entry
\* in descending order, the one of smallest statistic, minus 1.e-8, and
\* +infinity exactly when none qualifies.
C8_LastQualifying ==
    fres.op = "fdr_threshold" =>
        IF Qualifying = {} THEN fres.val.kind = "inf"
        ELSE /\ fres.val.kind = "z"
             /\ fres.val.v = DescendingEntry(SetMax(Qualifying)) * EpsInv - 1

\* fdr_threshold has returned on values of which two of different statistic
\* qualify.
C8_Witness ==
    /\ fres.op = "fdr_threshold"
    /\ \E j, k \in Qualifying : DescendingEntry(j) > DescendingEntry(k)

---------------------------------------------------------------------------
(* C9 *)

\* The result of fdr_pvalues does not depend on the order argsort gives to
\* equal values.
FdrPvaluesOrderFree ==
    fres.op = "fdr_pvalues"
        => fres.val = fdr_pvalues_with(z_vals, ArgSortTie(Neg(z_vals), "stable"))

\* C9: fdr_pvalues returns as many p-values as it was given values, a larger
\* value never has the larger p-value, and no p-value is above 1.
C9_MonotoneBounded ==
    fres.op = "fdr_pvalues" =>
        /\ DOMAIN fres.val = DOMAIN z_vals
        /\ \A i, j \in DOMAIN z_vals :
              z_vals[i] > z_vals[j] => QLeq(fres.val[i], fres.val[j])
        /\ \A i \in DOMAIN z_vals : QLeq(fres.val[i], POne)

\* fdr_pvalues has returned on values not given in descending order, with
\* a smaller p-value for the later, larger value, and the step-up loop has
\* brought the p-value of a larger value down to that of a smaller one.
C9_Witness ==
    /\ fres.op = "fdr_pvalues"
    /\ \E i, j \in DOMAIN z_vals :
          i < j /\ z_vals[i] < z_vals[j] /\ ~QLeq(fres.val[i], fres.val[j])
    /\ \E i, j \in DOMAIN z_vals :
          z_vals[i] > z_vals[j] /\ fres.val[i] = fres.val[j] /\ ~QLeq(POne, fres.val[i])

---------------------------------------------------------------------------
(* C10 *)

\* C10 (as claimed): every returned cluster has at least one local maximum.
C10_EveryClusterHasMaximum ==
    Returned =>
        \A i \in DOMAIN ret.clusters : Len(ret.clusters[i].cells) >= 1

====
